---- MODULE Spec2Model ----
(***************************************************************************)
(* Model of the flow form (UpdateFlow / InnerUpdateFlow, validateFields)   *)
(* and of the balance aggregation hook (useSuperTokenItems) of the         *)
(* superfluid-aragon-app.                                                  *)
(*                                                                         *)
(* JavaScript values are modelled by what the code does with them:         *)
(*   - a string holding an address is a record [body, form]: body names    *)
(*     the 20-byte value (0: the string is no hex address at all), form    *)
(*     is the spelling of the hex digits;                                  *)
(*   - a number is a record [tag, num, den]: tag is "num", "nan" or        *)
(*     "null", num/den the rational value (den > 0);                       *)
(*   - the text of the rate field is a record [kind, val].                 *)
(***************************************************************************)
EXTENDS Integers, Sequences, FiniteSets, TLC

VARIABLES
  \* ---- InnerUpdateFlow: React state and props
  recipient,      \* useState('')                       part_000:51
  selectedToken,  \* useState(INITIAL_SELECTED_TOKEN)   part_000:52
  flowRate,       \* useState('')                       part_000:53
  errorMessage,   \* useState()                         part_000:54
  presetParams,   \* panelState.presetParams            part_000:65, 213
  requests,       \* calls made to panelState.requestTransaction
  now,            \* the clock calculateCurrentAmount reads
  \* ---- validateFields called on its own
  call,           \* the arguments of one call
  result,         \* what the call returned
  \* ---- useSuperTokenItems
  aggInput,       \* superTokens, convertRates, isTestNet
  balanceItems    \* the hook's result

vars == <<recipient, selectedToken, flowRate, errorMessage, presetParams,
          requests, now, call, result, aggInput, balanceItems>>

formVars == <<recipient, selectedToken, flowRate, errorMessage, presetParams,
              requests>>
callVars == <<call, result>>
aggVars  == <<aggInput, balanceItems>>

----------------------------------------------------------------------------
\* Bounds of the model.

\* The clock runs from 0 to MaxNow seconds.
MaxNow == 2
\* At most MaxRequests transaction requests are recorded.
MaxRequests == 1

----------------------------------------------------------------------------
\* JavaScript numbers.

Num(n) == [tag |-> "num", num |-> n, den |-> 1]
NaN == [tag |-> "nan", num |-> 0, den |-> 1]
Null == [tag |-> "null", num |-> 0, den |-> 1]

\* ToNumber on a number or null: null is 0.
ToNumber(x) == IF x.tag = "null" THEN Num(0) ELSE x

\* x < y and x <= y of JavaScript: false as soon as one side is NaN.
JsLt(x, y) ==
  LET a == ToNumber(x)
      b == ToNumber(y)
  IN  a.tag = "num" /\ b.tag = "num" /\ a.num * b.den < b.num * a.den

JsLeq(x, y) ==
  LET a == ToNumber(x)
      b == ToNumber(y)
  IN  a.tag = "num" /\ b.tag = "num" /\ a.num * b.den <= b.num * a.den

JsMul(x, y) ==
  LET a == ToNumber(x)
      b == ToNumber(y)
  IN  IF a.tag = "nan" \/ b.tag = "nan" THEN NaN
      ELSE [tag |-> "num", num |-> a.num * b.num, den |-> a.den * b.den]

\* x == y as numbers.
NumEq(x, y) ==
  x.tag = "num" /\ y.tag = "num" /\ x.num * y.den = y.num * x.den

\* Truthiness of a number: 0, NaN and null are falsy.
NumTruthy(x) == x.tag = "num" /\ x.num # 0

RECURSIVE Pow10(_)
Pow10(d) == IF d = 0 THEN 1 ELSE 10 * Pow10(d - 1)

----------------------------------------------------------------------------
\* The text of the rate field and Number(flowRate).

EmptyText == [kind |-> "empty", val |-> 0]
GarbageText == [kind |-> "garbage", val |-> 0]
NumText(v) == [kind |-> "num", val |-> v]

\* Number(''): 0; Number('abc'): NaN; Number('-5'): -5.
Number(text) == IF text.kind = "garbage" THEN NaN ELSE Num(text.val)

\* !flowRate: only the empty string is falsy ('0' is truthy).
TextTruthy(text) == text.kind # "empty"

----------------------------------------------------------------------------
\* Address strings.

Addr(b, f) == [body |-> b, form |-> f]
EmptyString == Addr(0, "empty")
NotAnAddress == Addr(0, "garbage")

\* A string is truthy unless empty.
StrTruthy(s) == s.form # "empty"

\* web3-utils isAddress: 40 hex digits, and either all lower case, all upper
\* case, or mixed case carrying the EIP-55 checksum.
isAddress(s) == s.body # 0 /\ s.form \in {"lower", "upper", "checksum"}

\* helpers.addressesEqual: equality of the canonical (checksummed) forms.
addressesEqual(a, b) == a.body # 0 /\ a.body = b.body

----------------------------------------------------------------------------
\* Token snapshots (the superTokens prop).

Token(addr, dec, sym, bal, flow, upd, period) ==
  [defined |-> TRUE, address |-> addr, decimals |-> dec, symbol |-> sym,
   name |-> sym, balance |-> bal, netFlow |-> flow, lastUpdateDate |-> upd,
   liquidationPeriodSeconds |-> period, logoURI |-> sym, depletionDate |-> 0,
   inflowRate |-> IF flow > 0 THEN flow ELSE 0,
   outflowRate |-> IF flow < 0 THEN -flow ELSE 0]

\* superTokens[i] for an index outside the array.
Undefined == [defined |-> FALSE]

\* Accounts (bodies): 1 and 2 are counterparties, 3 is the agent,
\* 4 and 5 are the super tokens of the form, 6 and 7 are further tokens,
\* 9 is the token whose rate stands for every token of a test network.
TokenA == Token(Addr(4, "lower"), 0, "TKA", 3, 1, 1, 2)
TokenB == Token(Addr(5, "checksum"), 1, "TKB", 25, -5, 0, 2)
TokenZ == Token(Addr(6, "lower"), 0, "TKZ", 0, 0, 0, 2)
TokenY == Token(Addr(7, "lower"), 0, "TKY", 0, 2, 0, 2)

\* helpers.calculateCurrentAmount, at clock t: the balance plus the net flow
\* over the whole seconds elapsed since the snapshot, never fewer than 0.
calculateCurrentAmount(balance, netFlow, lastUpdateDate, t) ==
  LET elapsed == IF t < lastUpdateDate THEN 0 ELSE t - lastUpdateDate
  IN  balance + netFlow * elapsed

\* helpers.calculateRequiredDeposit: rate * period, and 0 when either is
\* not positive.
calculateRequiredDeposit(rateText, liquidationPeriodSeconds) ==
  LET rate == Number(rateText)
  IN  IF JsLeq(rate, Num(0)) \/ liquidationPeriodSeconds <= 0 THEN Num(0)
      ELSE JsMul(rate, Num(liquidationPeriodSeconds))

\* helpers.fromDecimals: the amount in the token's display unit.
fromDecimals(amount, decimals) ==
  [tag |-> "num", num |-> amount, den |-> Pow10(decimals)]

\* helpers.toDecimals: the number scaled to the token's smallest unit.
toDecimals(x, decimals) == JsMul(x, Num(Pow10(decimals)))

----------------------------------------------------------------------------
\* validateFields. The reasons stand for the messages of the code:
\*   InvalidAddress      'Recipient must be a valid Ethereum address.'
\*   SelfFlowForbidden   "You can't create a flow to the app's agent."
\*   NonPositiveRate     "Flow rate provided can't be negative nor zero."
\*   InsufficientBalance `Required deposit exceeds current ${symbol} balance.`
\*   Ok                  undefined (no return)
\*   TypeError           the destructuring of an undefined superToken throws

Reason(r) == [reason |-> r, symbol |-> ""]
Ok == Reason("Ok")
TypeError == Reason("TypeError")
Pending == Reason("Pending")

\* Mutant: the rate is checked before the recipient.
validateFields_RateFirst(superToken, rcpt, rateText, agentAddress, requiredDeposit, t) ==
  IF JsLeq(Number(rateText), Num(0)) THEN Reason("NonPositiveRate")
  ELSE IF ~isAddress(rcpt) THEN Reason("InvalidAddress")
  ELSE IF addressesEqual(rcpt, agentAddress) THEN Reason("SelfFlowForbidden")
  ELSE IF ~superToken.defined THEN TypeError
  ELSE IF JsLt(fromDecimals(calculateCurrentAmount(superToken.balance,
                 superToken.netFlow, superToken.lastUpdateDate, t),
                 superToken.decimals), requiredDeposit)
       THEN [reason |-> "InsufficientBalance", symbol |-> superToken.symbol]
  ELSE Ok

\* Mutant: the recipient is compared with the agent as a string.
validateFields_StringEqual(superToken, rcpt, rateText, agentAddress, requiredDeposit, t) ==
  IF ~isAddress(rcpt) THEN Reason("InvalidAddress")
  ELSE IF rcpt = agentAddress THEN Reason("SelfFlowForbidden")
  ELSE IF JsLeq(Number(rateText), Num(0)) THEN Reason("NonPositiveRate")
  ELSE IF ~superToken.defined THEN TypeError
  ELSE IF JsLt(fromDecimals(calculateCurrentAmount(superToken.balance,
                 superToken.netFlow, superToken.lastUpdateDate, t),
                 superToken.decimals), requiredDeposit)
       THEN [reason |-> "InsufficientBalance", symbol |-> superToken.symbol]
  ELSE Ok

\* Mutant: the deposit must be strictly below the current amount.
validateFields_StrictBalance(superToken, rcpt, rateText, agentAddress, requiredDeposit, t) ==
  IF ~isAddress(rcpt) THEN Reason("InvalidAddress")
  ELSE IF addressesEqual(rcpt, agentAddress) THEN Reason("SelfFlowForbidden")
  ELSE IF JsLeq(Number(rateText), Num(0)) THEN Reason("NonPositiveRate")
  ELSE IF ~superToken.defined THEN TypeError
  ELSE IF JsLeq(fromDecimals(calculateCurrentAmount(superToken.balance,
                 superToken.netFlow, superToken.lastUpdateDate, t),
                 superToken.decimals), requiredDeposit)
       THEN [reason |-> "InsufficientBalance", symbol |-> superToken.symbol]
  ELSE Ok

validateFields(superToken, rcpt, rateText, agentAddress, requiredDeposit, t) ==
  IF ~isAddress(rcpt) THEN Reason("InvalidAddress")
  ELSE IF addressesEqual(rcpt, agentAddress) THEN Reason("SelfFlowForbidden")
  ELSE IF JsLeq(Number(rateText), Num(0)) THEN Reason("NonPositiveRate")
  ELSE IF ~superToken.defined THEN TypeError
  ELSE LET currentBalance == calculateCurrentAmount(superToken.balance,
                               superToken.netFlow, superToken.lastUpdateDate, t)
       IN  IF JsLt(fromDecimals(currentBalance, superToken.decimals),
                   requiredDeposit)
           THEN [reason |-> "InsufficientBalance", symbol |-> superToken.symbol]
           ELSE Ok

----------------------------------------------------------------------------
\* The props of InnerUpdateFlow.

\* useAppState().agentAddress
agentAddress == Addr(3, "lower")

superTokens == <<TokenA, TokenB>>

Flow(ent, tok, rate, incoming, cancelled) ==
  [defined |-> TRUE, entity |-> ent, superTokenAddress |-> tok,
   flowRate |-> rate, isIncoming |-> incoming, isCancelled |-> cancelled]

\* flows[-1]
NoFlow == [defined |-> FALSE]

\* To account 1 on token A: a cancelled flow, an incoming one, then two
\* outgoing ones. With account 2 on token B: a cancelled and an incoming one.
flows ==
  << Flow(Addr(1, "checksum"), Addr(4, "checksum"), 7, FALSE, TRUE),
     Flow(Addr(1, "checksum"), Addr(4, "checksum"), 3, TRUE, FALSE),
     Flow(Addr(1, "checksum"), Addr(4, "upper"), 5, FALSE, FALSE),
     Flow(Addr(1, "lower"), Addr(4, "lower"), 9, FALSE, FALSE),
     Flow(Addr(2, "lower"), Addr(5, "lower"), 4, FALSE, TRUE),
     Flow(Addr(2, "lower"), Addr(5, "lower"), 6, TRUE, FALSE) >>

\* Array.prototype.findIndex on the outcomes of the test, element by
\* element, on 1-based sequences: 0 stands for -1.
FindIndex(tests) ==
  IF \E i \in 1..Len(tests) : tests[i]
  THEN CHOOSE i \in 1..Len(tests) : tests[i] /\ \A j \in 1..(i - 1) : ~tests[j]
  ELSE 0

\* TokenSelector's INITIAL_SELECTED_TOKEN. index 0 stands for -1, and
\* index i >= 1 for the JavaScript index i - 1.
NoData == [decimals |-> 0, name |-> "", symbol |-> ""]
INITIAL_SELECTED_TOKEN == [index |-> 0, address |-> EmptyString, data |-> NoData]

\* What TokenSelector hands to onChange for the i-th super token.
TokenItem(i) ==
  [index |-> i, address |-> superTokens[i].address,
   data |-> [decimals |-> superTokens[i].decimals, name |-> superTokens[i].name,
             symbol |-> superTokens[i].symbol]]

\* What TokenSelector hands to onChange for an address typed in by hand.
CustomToken(addr) == [index |-> 0, address |-> addr, data |-> NoData]

findSuperTokenByAddress(address, tokens) ==
  LET Same(superToken) == addressesEqual(superToken.address, address)
      index == FindIndex([i \in 1..Len(tokens) |-> Same(tokens[i])])
  IN  [index |-> index, address |-> tokens[index].address,
       data |-> [decimals |-> tokens[index].decimals,
                 name |-> tokens[index].name,
                 symbol |-> tokens[index].symbol]]

\* panelState.presetParams: undefined, or the token and recipient of the
\* flow to update.
NoParams ==
  [presetSuperTokenAddress |-> EmptyString, presetRecipient |-> EmptyString,
   updateSuperTokenAddress |-> EmptyString, updateRecipient |-> EmptyString]

PresetOf(tok, rcpt) ==
  [presetSuperTokenAddress |-> tok, presetRecipient |-> rcpt,
   updateSuperTokenAddress |-> EmptyString, updateRecipient |-> EmptyString]

PresetInputs ==
  {NoParams, PresetOf(Addr(4, "upper"), Addr(1, "checksum")),
   PresetOf(Addr(5, "lower"), Addr(2, "lower"))}

\* What the user can enter.
RecipientInputs ==
  {EmptyString, NotAnAddress, Addr(1, "lower"), Addr(1, "upper"),
   Addr(1, "mixed"), Addr(2, "checksum"), Addr(3, "upper")}

TokenInputs ==
  {TokenItem(i) : i \in 1..Len(superTokens)} \cup {CustomToken(Addr(6, "lower"))}

RateInputs ==
  {EmptyText, GarbageText, NumText(-5), NumText(0), NumText(1), NumText(2)}

----------------------------------------------------------------------------
\* InnerUpdateFlow: what a render derives from the state.

\* superTokens[selectedToken.index]
TokenAt(i) == IF i \in 1..Len(superTokens) THEN superTokens[i] ELSE Undefined

requiredDeposit ==
  IF selectedToken.index >= 1
  THEN calculateRequiredDeposit(flowRate,
         superTokens[selectedToken.index].liquidationPeriodSeconds)
  ELSE Null

isFlowUpdateOperation ==
  StrTruthy(presetParams.presetSuperTokenAddress)
    /\ StrTruthy(presetParams.presetRecipient)

\* No message: undefined after the mount, '' after an edit.
NoMessage == Reason("undefined")
EmptyMessage == Reason("")
MessageTruthy(m) == m.reason \notin {"undefined", ""}

disableSubmit ==
  \/ MessageTruthy(errorMessage)
  \/ (~StrTruthy(recipient) /\ ~StrTruthy(presetParams.presetRecipient))
  \/ (~StrTruthy(selectedToken.address)
        /\ ~StrTruthy(presetParams.presetSuperTokenAddress))
  \/ ~TextTruthy(flowRate)

\* Mutant: cancelled flows match too.
existingFlowOf_Cancelled(fl, isUpdate, rcpt, tokenAddress) ==
  IF isUpdate \/ ~isAddress(rcpt) \/ ~isAddress(tokenAddress) THEN NoFlow
  ELSE LET Match(f) == /\ ~f.isIncoming
                       /\ addressesEqual(f.entity, rcpt)
                       /\ addressesEqual(f.superTokenAddress, tokenAddress)
           flowIndex == FindIndex([i \in 1..Len(fl) |-> Match(fl[i])])
       IN  IF flowIndex = 0 THEN NoFlow ELSE fl[flowIndex]

existingFlowOf(fl, isUpdate, rcpt, tokenAddress) ==
  IF isUpdate \/ ~isAddress(rcpt) \/ ~isAddress(tokenAddress) THEN NoFlow
  ELSE LET Match(f) == /\ ~f.isCancelled
                       /\ ~f.isIncoming
                       /\ addressesEqual(f.entity, rcpt)
                       /\ addressesEqual(f.superTokenAddress, tokenAddress)
           flowIndex == FindIndex([i \in 1..Len(fl) |-> Match(fl[i])])
       IN  IF flowIndex = 0 THEN NoFlow ELSE fl[flowIndex]

existingFlow ==
  existingFlowOf(flows, isFlowUpdateOperation, recipient, selectedToken.address)

displayFlowExists == existingFlow.defined /\ JsLt(Num(0), Number(flowRate))

\* The label of the submit button and the title of the panel.
SubmitLabel == IF isFlowUpdateOperation \/ displayFlowExists THEN "Update" ELSE "Create"

PanelTitle ==
  IF StrTruthy(presetParams.updateSuperTokenAddress)
       /\ StrTruthy(presetParams.updateRecipient)
  THEN "Update Flow" ELSE "Create Flow"

\* helpers.calculateNewFlowRate: the requested rate, with or without an
\* existing flow.
calculateNewFlowRate(flow, rateText) == Number(rateText)

----------------------------------------------------------------------------
\* InnerUpdateFlow: the mount and the handlers.

\* The state after the mount and its effects: the useState defaults, and
\* the preset recipient and token when the panel was opened with both.
FormInit ==
  /\ presetParams \in PresetInputs
  /\ recipient = IF isFlowUpdateOperation THEN presetParams.presetRecipient
                 ELSE EmptyString
  /\ selectedToken =
       IF isFlowUpdateOperation
       THEN findSuperTokenByAddress(presetParams.presetSuperTokenAddress, superTokens)
       ELSE INITIAL_SELECTED_TOKEN
  /\ flowRate = EmptyText
  /\ errorMessage = NoMessage
  /\ requests = <<>>
  /\ now = 0

\* The token selector is disabled in an update opened with preset params.
handleTokenChange(value) ==
  /\ ~isFlowUpdateOperation
  /\ selectedToken' = value
  /\ errorMessage' = EmptyMessage
  /\ UNCHANGED <<recipient, flowRate, presetParams, requests, now>>

\* The recipient field takes no pointer events in such an update.
handleRecipientChange(value) ==
  /\ ~isFlowUpdateOperation
  /\ recipient' = value
  /\ errorMessage' = EmptyMessage
  /\ UNCHANGED <<selectedToken, flowRate, presetParams, requests, now>>

handleFlowRateChange(value) ==
  /\ flowRate' = value
  /\ errorMessage' = EmptyMessage
  /\ UNCHANGED <<recipient, selectedToken, presetParams, requests, now>>

\* The arguments of panelState.requestTransaction(onUpdateFlow, [...]).
Request(tok, rcpt, rate) == [token |-> tok, recipient |-> rcpt, flowRate |-> rate]

\* The validation a submit runs.
SubmitError ==
  validateFields(TokenAt(selectedToken.index), recipient, flowRate,
                 agentAddress, requiredDeposit, now)

\* Mutant: the rate of the existing flow is added to the requested rate.
handleSubmit_AddExisting ==
  /\ ~disableSubmit
  /\ Len(requests) < MaxRequests
  /\ LET error == SubmitError
     IN  IF error.reason = "TypeError" THEN UNCHANGED formVars
         ELSE IF error.reason # "Ok"
         THEN /\ errorMessage' = error
              /\ UNCHANGED <<recipient, selectedToken, flowRate, presetParams, requests>>
         ELSE LET newFlowRate ==
                    IF existingFlow.defined
                    THEN Num(existingFlow.flowRate + Number(flowRate).num)
                    ELSE calculateNewFlowRate(existingFlow, flowRate)
                  adjustedFlowRate == toDecimals(newFlowRate, selectedToken.data.decimals)
              IN  /\ requests' = Append(requests,
                        Request(selectedToken.address, recipient, adjustedFlowRate))
                  /\ UNCHANGED <<recipient, selectedToken, flowRate, errorMessage,
                                 presetParams>>
  /\ UNCHANGED now

\* Mutant: no return after setErrorMessage.
handleSubmit_NoReturn ==
  /\ ~disableSubmit
  /\ Len(requests) < MaxRequests
  /\ LET error == SubmitError
     IN  IF error.reason = "TypeError" THEN UNCHANGED formVars
         ELSE LET newFlowRate == calculateNewFlowRate(existingFlow, flowRate)
                  adjustedFlowRate == toDecimals(newFlowRate, selectedToken.data.decimals)
              IN  /\ errorMessage' = IF error.reason # "Ok" THEN error ELSE errorMessage
                  /\ requests' = Append(requests,
                        Request(selectedToken.address, recipient, adjustedFlowRate))
                  /\ UNCHANGED <<recipient, selectedToken, flowRate, presetParams>>
  /\ UNCHANGED now

\* The form is submitted through its submit button, which is disabled by
\* disableSubmit. A throw in validateFields leaves the state as it was.
handleSubmit ==
  /\ ~disableSubmit
  /\ Len(requests) < MaxRequests
  /\ LET error == SubmitError
     IN  IF error.reason = "TypeError" THEN UNCHANGED formVars
         ELSE IF error.reason # "Ok"
         THEN /\ errorMessage' = error
              /\ UNCHANGED <<recipient, selectedToken, flowRate, presetParams, requests>>
         ELSE LET newFlowRate == calculateNewFlowRate(existingFlow, flowRate)
                  adjustedFlowRate == toDecimals(newFlowRate, selectedToken.data.decimals)
              IN  /\ requests' = Append(requests,
                        Request(selectedToken.address, recipient, adjustedFlowRate))
                  /\ UNCHANGED <<recipient, selectedToken, flowRate, errorMessage,
                                 presetParams>>
  /\ UNCHANGED now

\* A second passes.
Tick ==
  /\ now < MaxNow
  /\ now' = now + 1
  /\ UNCHANGED formVars

----------------------------------------------------------------------------
\* validateFields called on its own, on arguments of any kind.

CallTokens == {TokenA, TokenB, Undefined}
CallRecipients ==
  RecipientInputs \cup {Addr(3, "lower"), Addr(3, "checksum"), Addr(3, "mixed")}
CallAgents == {Addr(3, "lower"), Addr(3, "upper"), EmptyString}
CallDeposits == {Null, NaN, Num(0), Num(2), Num(4)}

NoCall ==
  [superToken |-> Undefined, recipient |-> EmptyString, flowRate |-> EmptyText,
   agentAddress |-> EmptyString, requiredDeposit |-> Null, t |-> 0]

CallInit ==
  /\ call \in [superToken : CallTokens, recipient : CallRecipients,
               flowRate : RateInputs, agentAddress : CallAgents,
               requiredDeposit : CallDeposits, t : 0..MaxNow]
  /\ result = Pending

Validate ==
  /\ result = Pending
  /\ result' = validateFields(call.superToken, call.recipient, call.flowRate,
                              call.agentAddress, call.requiredDeposit, call.t)
  /\ UNCHANGED call

----------------------------------------------------------------------------
\* useSuperTokenItems.

\* The longest superTokens array handed to the hook.
MaxTokens == 3

\* helpers.DEFAULT_CURRENCY
DEFAULT_CURRENCY == "USD"

\* An absent value (undefined) where a number may stand.
UndefinedNum == [tag |-> "undefined", num |-> 0, den |-> 1]

\* The rate table: a set of entries, one at most for an id and a currency.
\* table[id]?.[currency]: undefined when the id has no entry, and when the
\* id's entry has none for the currency.
Rate(id, cur, r) == [id |-> id, currency |-> cur, rate |-> r]

LookupRate(table, id, cur) ==
  IF ~(\E e \in table : e.id = id) THEN UndefinedNum
  ELSE IF ~(\E e \in table : e.id = id /\ e.currency = cur) THEN UndefinedNum
  ELSE Num((CHOOSE e \in table : e.id = id /\ e.currency = cur).rate)

\* helpers.getConvertRateToken: on a test network one fixed token stands
\* for every token; otherwise the token's own address.
TestNetRateToken == Addr(9, "lower")
getConvertRateToken(superToken, isTestNet) ==
  IF isTestNet THEN TestNetRateToken ELSE superToken.address

\* helpers.getAvailableSuperTokens: the tokens with a balance or a net flow.
getAvailableSuperTokens(tokens) ==
  LET Available(tok) == tok.balance # 0 \/ tok.netFlow # 0
  IN  SelectSeq(tokens, Available)

\* helpers.getConvertedAmount
getConvertedAmount(amount, conversionRate) == JsMul(Num(amount), conversionRate)

\* Mutant: every super token gets an item, available or not.
balanceItemsOf_NoFilter(tokens, convertRates, isTestNet) ==
  LET Item(superToken) ==
        LET conversionRate ==
              LookupRate(convertRates, getConvertRateToken(superToken, isTestNet),
                         DEFAULT_CURRENCY)
            found == NumTruthy(conversionRate)
        IN  [address |-> superToken.address,
             amount |-> superToken.balance,
             convertedAmount |->
               IF found THEN getConvertedAmount(superToken.balance, conversionRate)
               ELSE UndefinedNum,
             decimals |-> superToken.decimals,
             depletionDate |-> superToken.depletionDate,
             lastUpdateDate |-> superToken.lastUpdateDate,
             logoURI |-> superToken.logoURI,
             name |-> superToken.name,
             inflowRate |-> superToken.inflowRate,
             outflowRate |-> superToken.outflowRate,
             netFlow |-> superToken.netFlow,
             convertedNetFlow |->
               IF found THEN getConvertedAmount(superToken.netFlow, conversionRate)
               ELSE UndefinedNum,
             symbol |-> superToken.symbol]
  IN  [i \in 1..Len(tokens) |-> Item(tokens[i])]

\* The useMemo of the hook: one item for each available token.
balanceItemsOf(tokens, convertRates, isTestNet) ==
  LET available == getAvailableSuperTokens(tokens)
      Item(superToken) ==
        LET conversionRate ==
              LookupRate(convertRates, getConvertRateToken(superToken, isTestNet),
                         DEFAULT_CURRENCY)
            found == NumTruthy(conversionRate)
        IN  [address |-> superToken.address,
             amount |-> superToken.balance,
             convertedAmount |->
               IF found THEN getConvertedAmount(superToken.balance, conversionRate)
               ELSE UndefinedNum,
             decimals |-> superToken.decimals,
             depletionDate |-> superToken.depletionDate,
             lastUpdateDate |-> superToken.lastUpdateDate,
             logoURI |-> superToken.logoURI,
             name |-> superToken.name,
             inflowRate |-> superToken.inflowRate,
             outflowRate |-> superToken.outflowRate,
             netFlow |-> superToken.netFlow,
             convertedNetFlow |->
               IF found THEN getConvertedAmount(superToken.netFlow, conversionRate)
               ELSE UndefinedNum,
             symbol |-> superToken.symbol]
  IN  [i \in 1..Len(available) |-> Item(available[i])]

useSuperTokenItems(input) ==
  balanceItemsOf(input.superTokens, input.convertRates, input.isTestNet)

\* The inputs of the hook.
TokenPool == {TokenA, TokenB, TokenZ, TokenY}
TokenLists == UNION {[1..n -> TokenPool] : n \in 0..MaxTokens}

RateTables ==
  { {},
    {Rate(Addr(4, "lower"), "USD", 2)},
    {Rate(Addr(4, "lower"), "EUR", 2)},
    {Rate(Addr(4, "lower"), "USD", 0), Rate(Addr(7, "lower"), "USD", 3)},
    {Rate(Addr(4, "lower"), "USD", 2), Rate(Addr(5, "checksum"), "USD", 3),
     Rate(Addr(6, "lower"), "USD", 4), Rate(TestNetRateToken, "USD", 5)} }

\* The first render: no super tokens, no rates and no network yet.
ItemsInit ==
  /\ aggInput = [superTokens |-> <<>>, convertRates |-> {}, isTestNet |-> FALSE]
  /\ balanceItems = useSuperTokenItems(aggInput)

\* A render after one of the hook's inputs changed.
Render(input) ==
  /\ aggInput' = input
  /\ balanceItems' = useSuperTokenItems(input)

SuperTokensChanged ==
  \E tokens \in TokenLists : Render([aggInput EXCEPT !.superTokens = tokens])

ConvertRatesChanged ==
  \E table \in RateTables : Render([aggInput EXCEPT !.convertRates = table])

NetworkChanged ==
  \E isTestNet \in BOOLEAN : Render([aggInput EXCEPT !.isTestNet = isTestNet])

----------------------------------------------------------------------------
\* The specifications: the form, validateFields alone, the hook alone.

FormIdle ==
  /\ presetParams = NoParams
  /\ recipient = EmptyString
  /\ selectedToken = INITIAL_SELECTED_TOKEN
  /\ flowRate = EmptyText
  /\ errorMessage = NoMessage
  /\ requests = <<>>
  /\ now = 0

CallIdle == call = NoCall /\ result = Pending

ItemsIdle ==
  /\ aggInput = [superTokens |-> <<>>, convertRates |-> {}, isTestNet |-> FALSE]
  /\ balanceItems = <<>>

Init == FormInit /\ CallIdle /\ ItemsIdle

Next ==
  \/ \E value \in RecipientInputs : handleRecipientChange(value) /\ UNCHANGED <<callVars, aggVars>>
  \/ \E value \in TokenInputs : handleTokenChange(value) /\ UNCHANGED <<callVars, aggVars>>
  \/ \E value \in RateInputs : handleFlowRateChange(value) /\ UNCHANGED <<callVars, aggVars>>
  \/ handleSubmit /\ UNCHANGED <<callVars, aggVars>>
  \/ Tick /\ UNCHANGED <<callVars, aggVars>>

Spec == Init /\ [][Next]_vars

ValidateInit == CallInit /\ FormIdle /\ ItemsIdle

ValidateNext == Validate /\ UNCHANGED <<formVars, now, aggVars>>

SpecValidate == ValidateInit /\ [][ValidateNext]_vars

ItemsSpecInit == ItemsInit /\ FormIdle /\ CallIdle

ItemsNext ==
  \/ SuperTokensChanged /\ UNCHANGED <<formVars, now, callVars>>
  \/ ConvertRatesChanged /\ UNCHANGED <<formVars, now, callVars>>
  \/ NetworkChanged /\ UNCHANGED <<formVars, now, callVars>>

SpecItems == ItemsSpecInit /\ [][ItemsNext]_vars

----------------------------------------------------------------------------
\* What the claims speak of, stated apart from the code's own helpers.

\* Two address strings name the same account.
SameAccount(a, b) == a.body # 0 /\ b.body # 0 /\ a.body = b.body

\* The valid spellings of an address.
Spellings(a) == {Addr(a.body, f) : f \in {"lower", "upper", "checksum"}}

\* The text is a number above 0.
StrictlyPositive(text) == text.kind = "num" /\ text.val > 0

\* The text is a number, 0 or below ('' counts as 0).
NonPositive(text) == text.kind \in {"num", "empty"} /\ text.val <= 0

\* The token's amount at clock t, in its smallest unit.
AmountAt(tok, t) ==
  tok.balance + tok.netFlow * (IF t > tok.lastUpdateDate THEN t - tok.lastUpdateDate ELSE 0)

\* The amount at t, in display units, is below the deposit (a number).
BelowDeposit(tok, deposit, t) ==
  /\ ToNumber(deposit).tag = "num"
  /\ AmountAt(tok, t) * ToNumber(deposit).den
       < ToNumber(deposit).num * Pow10(tok.decimals)

----------------------------------------------------------------------------
\* validateFields alone (SpecValidate).

\* C1: the checks run in the order InvalidAddress, SelfFlowForbidden,
\* NonPositiveRate, InsufficientBalance and the first that fails decides:
\* an invalid recipient gives InvalidAddress whatever the other arguments
\* (an absent token included), a valid recipient that is the agent gives
\* SelfFlowForbidden whatever the rate and balance, a rate of 0 or below
\* gives NonPositiveRate whatever the balance, and Ok is returned only
\* when none of the four checks fails.
C1_CheckOrder ==
  result # Pending =>
    LET valid == isAddress(call.recipient)
        self == SameAccount(call.recipient, call.agentAddress)
        nonPositive == NonPositive(call.flowRate)
    IN  /\ ~valid => result.reason = "InvalidAddress"
        /\ (valid /\ self) => result.reason = "SelfFlowForbidden"
        /\ (valid /\ ~self /\ nonPositive) => result.reason = "NonPositiveRate"
        /\ result.reason = "Ok" =>
             /\ valid /\ ~self /\ ~nonPositive
             /\ call.superToken.defined
             /\ ~BelowDeposit(call.superToken, call.requiredDeposit, call.t)

\* An invalid recipient, a rate below 0 and no token: InvalidAddress.
C1_Witness ==
  /\ result.reason = "InvalidAddress"
  /\ call.flowRate = NumText(-5)
  /\ ~call.superToken.defined

\* C2: with a valid recipient that is not the agent, every rate that is not
\* a number above 0 is rejected with NonPositiveRate.
C2_NonPositiveRejected ==
  (/\ result # Pending
   /\ isAddress(call.recipient)
   /\ ~SameAccount(call.recipient, call.agentAddress)
   /\ ~StrictlyPositive(call.flowRate))
    => result.reason = "NonPositiveRate"

\* C4: SelfFlowForbidden is returned whenever the recipient is a valid
\* address naming the agent's account, whatever the casing of either, and
\* never when the two name different accounts.
C4_SelfFlowCanonical ==
  result # Pending =>
    /\ (isAddress(call.recipient) /\ SameAccount(call.recipient, call.agentAddress))
         => result.reason = "SelfFlowForbidden"
    /\ result.reason = "SelfFlowForbidden"
         => SameAccount(call.recipient, call.agentAddress)

\* An upper-case recipient against the lower-case agent address.
C4_Witness ==
  /\ result.reason = "SelfFlowForbidden"
  /\ call.recipient.form = "upper"
  /\ call.agentAddress.form = "lower"

----------------------------------------------------------------------------
\* The form (Spec).

\* A step in which a submit rejected: a message was stored.
Rejects == MessageTruthy(errorMessage') /\ errorMessage' # errorMessage

\* A step in which a transaction request was issued.
Requests == requests' # requests

\* The token the form validates.
FormToken == superTokens[selectedToken.index]

\* C3: with a valid recipient that is not the agent and a rate above 0, a
\* submit is rejected, with InsufficientBalance, exactly when the validated
\* token's amount at that time (balance + netFlow * seconds elapsed, in
\* display units) is below rate * liquidationPeriodSeconds of that token,
\* and is accepted when the amount is that deposit or more.
C3_DepositCheck ==
  [][ (/\ isAddress(recipient)
       /\ ~SameAccount(recipient, agentAddress)
       /\ StrictlyPositive(flowRate)
       /\ selectedToken.index >= 1)
      => LET deposit == Num(flowRate.val * FormToken.liquidationPeriodSeconds)
             below == BelowDeposit(FormToken, deposit, now)
         IN  /\ Rejects => /\ below
                           /\ errorMessage' = [reason |-> "InsufficientBalance",
                                               symbol |-> FormToken.symbol]
             /\ Requests => ~below
             /\ (ENABLED handleSubmit) =>
                  IF below THEN ~ENABLED (handleSubmit /\ Requests)
                  ELSE ~ENABLED (handleSubmit /\ Rejects) ]_vars

\* Token B, one decimal: 2.5 units at first, 1.5 two seconds later.
C3_Witness ==
  /\ errorMessage = [reason |-> "InsufficientBalance", symbol |-> "TKB"]
  /\ flowRate = NumText(1)
  /\ now = MaxNow

\* A flow is a live outgoing flow between the form's recipient and token.
Live(f) ==
  /\ ~f.isCancelled
  /\ ~f.isIncoming
  /\ SameAccount(f.entity, recipient)
  /\ SameAccount(f.superTokenAddress, selectedToken.address)

\* C5: the flow the lookup returns is a flow of the collection that is not
\* cancelled, is outgoing and has the recipient's and the selected token's
\* account, and is the first such flow; every valid spelling of the two
\* addresses gives the same flow; when every flow of that recipient and
\* token is cancelled or incoming, no flow is returned.
C5_ExistingFlowLookup ==
  /\ existingFlow.defined =>
       \E i \in 1..Len(flows) :
         /\ flows[i] = existingFlow
         /\ Live(flows[i])
         /\ \A j \in 1..(i - 1) : ~Live(flows[j])
  /\ (isAddress(recipient) /\ isAddress(selectedToken.address)) =>
       \A r \in Spellings(recipient), tok \in Spellings(selectedToken.address) :
         existingFlowOf(flows, isFlowUpdateOperation, r, tok) = existingFlow
  /\ (\A i \in 1..Len(flows) : ~Live(flows[i])) => ~existingFlow.defined

\* An upper-case recipient finds the third flow, past a cancelled and an
\* incoming one.
C5_Witness ==
  /\ existingFlow.defined
  /\ existingFlow = flows[3]
  /\ recipient.form = "upper"

\* The requested rate, scaled to the decimals of the selected token.
ScaledRequest ==
  IF flowRate.kind = "garbage" THEN NaN
  ELSE Num(flowRate.val * Pow10(selectedToken.data.decimals))

\* C6: the rate handed to the transaction request is the requested rate
\* scaled to the token's decimals, with a matching existing flow (update)
\* and without one (create); the existing flow's rate plays no part.
C6_RequestedRateSubmitted ==
  [][ Requests =>
        /\ Len(requests') = Len(requests) + 1
        /\ LET sent == requests'[Len(requests')].flowRate
           IN  IF ScaledRequest.tag = "nan" THEN sent.tag = "nan"
               ELSE NumEq(sent, ScaledRequest) ]_vars

\* A request to a recipient and token that have a live outgoing flow,
\* entered by hand.
C6_Witness ==
  /\ requests # <<>>
  /\ ~isFlowUpdateOperation
  /\ existingFlowOf(flows, FALSE, requests[1].recipient, requests[1].token).defined

\* C9: a transaction request is issued only by a submit whose validation
\* of the current recipient, token and rate returned Ok; a submit whose
\* validation rejects stores the reason as the error message, issues no
\* request and leaves recipient, token and rate as they were; a set error
\* message disables the submit and stays until an edit of the recipient,
\* the token or the rate, which empties it.
C9_SubmitGate ==
  [][ /\ Requests =>
           /\ SubmitError = Ok
           /\ ~disableSubmit
           /\ requests' = Append(requests, requests'[Len(requests')])
           /\ requests'[Len(requests')].token = selectedToken.address
           /\ requests'[Len(requests')].recipient = recipient
           /\ UNCHANGED <<recipient, selectedToken, flowRate, errorMessage>>
      /\ Rejects =>
           /\ errorMessage' = SubmitError
           /\ SubmitError.reason \in {"InvalidAddress", "SelfFlowForbidden",
                                      "NonPositiveRate", "InsufficientBalance"}
           /\ UNCHANGED <<recipient, selectedToken, flowRate, requests>>
      /\ (ENABLED handleSubmit /\ SubmitError.reason \notin {"Ok", "TypeError"})
           => ~ENABLED (handleSubmit /\ ~Rejects)
      /\ MessageTruthy(errorMessage) =>
           /\ disableSubmit
           /\ ~ENABLED handleSubmit
           /\ errorMessage' # errorMessage =>
                (errorMessage' = EmptyMessage /\ UNCHANGED <<requests, now>>)
           /\ <<recipient, selectedToken, flowRate>>' # <<recipient, selectedToken, flowRate>>
                => errorMessage' = EmptyMessage ]_vars

\* A rejected submit: the message is set and nothing was requested.
C9_Witness ==
  /\ errorMessage.reason = "SelfFlowForbidden"
  /\ requests = <<>>
  /\ disableSubmit

\* C10: the submit label is 'Update' exactly when the panel was opened with
\* a preset token and recipient or a live outgoing flow exists for the
\* entered recipient and selected token, and 'Create' otherwise; the panel
\* title is 'Update Flow' in the same states and 'Create Flow' otherwise.
C10_LabelMatchesTitle ==
  LET targetsExisting ==
        \/ isFlowUpdateOperation
        \/ \E i \in 1..Len(flows) : Live(flows[i])
  IN  /\ SubmitLabel = (IF targetsExisting THEN "Update" ELSE "Create")
      /\ PanelTitle = (IF targetsExisting THEN "Update Flow" ELSE "Create Flow")

----------------------------------------------------------------------------
\* useSuperTokenItems alone (SpecItems).

\* The snapshot has a balance or a net flow.
HasBalanceOrFlow(tok) == tok.balance # 0 \/ tok.netFlow # 0

Retained == SelectSeq(aggInput.superTokens, HasBalanceOrFlow)

\* The rate table holds a rate for the token's lookup id and the currency.
HasRate(tok) ==
  \E e \in aggInput.convertRates :
    /\ e.id = getConvertRateToken(tok, aggInput.isTestNet)
    /\ e.currency = DEFAULT_CURRENCY

RateOf(tok) ==
  (CHOOSE e \in aggInput.convertRates :
     /\ e.id = getConvertRateToken(tok, aggInput.isTestNet)
     /\ e.currency = DEFAULT_CURRENCY).rate

\* C7: for every retained snapshot, both converted fields are there
\* (balance * rate and netFlow * rate) when the rate table has an entry for
\* the token's lookup id and the currency, both are absent when it has
\* none, and the two are there or absent together.
C7_ConvertedFields ==
  /\ Len(balanceItems) = Len(Retained)
  /\ \A i \in 1..Len(balanceItems) :
       LET item == balanceItems[i]
           tok == Retained[i]
       IN  /\ HasRate(tok) =>
                /\ item.convertedAmount = Num(tok.balance * RateOf(tok))
                /\ item.convertedNetFlow = Num(tok.netFlow * RateOf(tok))
           /\ ~HasRate(tok) =>
                /\ item.convertedAmount = UndefinedNum
                /\ item.convertedNetFlow = UndefinedNum
           /\ (item.convertedAmount = UndefinedNum)
                <=> (item.convertedNetFlow = UndefinedNum)

\* C8: the items are the snapshots that have a balance or a net flow, one
\* item each, in the order of the input, and an item carries its
\* snapshot's address, balance, decimals, net flow, last update, symbol
\* and name, with or without a rate.
C8_ItemsFollowInput ==
  /\ Len(balanceItems) = Len(Retained)
  /\ \A i \in 1..Len(balanceItems) :
       LET item == balanceItems[i]
           tok == Retained[i]
       IN  /\ item.address = tok.address
           /\ item.amount = tok.balance
           /\ item.decimals = tok.decimals
           /\ item.netFlow = tok.netFlow
           /\ item.lastUpdateDate = tok.lastUpdateDate
           /\ item.symbol = tok.symbol
           /\ item.name = tok.name

\* Three snapshots, the one in the middle without balance or flow: two
\* items in the input's order, the first without a rate, the second with.
C8_Witness ==
  /\ aggInput.superTokens = <<TokenB, TokenZ, TokenA>>
  /\ Len(balanceItems) = 2
  /\ balanceItems[1].symbol = "TKB"
  /\ balanceItems[2].symbol = "TKA"
  /\ balanceItems[1].convertedAmount = UndefinedNum
  /\ balanceItems[2].convertedAmount # UndefinedNum

====
